---- MODULE Spec2Model ----
(***************************************************************************)
(* Frame-skipping Pong agent (src/Day04/add_FrameSkip.py, class PongAgent). *)
(*                                                                         *)
(* The agent's fields frame_skip, frame_count and last_action are the      *)
(* state; __init__ and get_action are the operations.  The TFLite          *)
(* interpreter is an opaque collaborator: a deterministic map from state   *)
(* vectors to score vectors whose calls (set_tensor, invoke, get_tensor)   *)
(* may raise.  History variables record what each call did, so that        *)
(* properties over call sequences can be stated as invariants.             *)
(***************************************************************************)
EXTENDS Integers, Sequences, FiniteSets, TLC

\* ---------------------------------------------------------------- bounds
MaxTicks == 9       \* get_action is called at most this many times
MaxSkip == 4        \* largest frame_skip passed to the constructor
MaxNegSkip == 2     \* the constructor is also tried with 0 and -1 .. -MaxNegSkip

\* ------------------------------------------------------------- constants
LEFT == 0           \* docstring of get_action: 0 = left
STAY == 1           \* 1 = stay, the initial action
RIGHT == 2          \* 2 = right

\* the fields of an agent that does not exist are never read (every action
\* and formula tests status first); they hold placeholders of the fields'
\* own types, an integer no field can take and the map of no model
None == 0 - 1
NoInterpreter == <<>>
NoAction == <<>>    \* "no action": a call that raised, or no call yet
Some(a) == <<a>>

Actions == {LEFT, STAY, RIGHT}

\* state: [ball x, ball y, paddle x, ball dx, ball dy]; two observations that
\* differ in the ball and paddle position
StateVectors == { <<0, 0, 0, 1, 1>>, <<1, 0, 1, 1, 1>> }

\* output[0] of the interpreter: one Q-value per action.  np.argmax depends
\* only on how the three values are ordered, so the vectors are taken up to
\* order: the levels used are 0, 0..1 or 0..2, which gives each of the 13
\* weak orderings of three values (all ties and all strict orders) once.
ScoreVectors ==
    { v \in [1..3 -> 0..2] :
        \A x \in 1..2 : (\E i \in 1..3 : v[i] = x) => (\E j \in 1..3 : v[j] = x - 1) }

\* an interpreter loaded from a model file: deterministic for a fixed input
Backends == [StateVectors -> ScoreVectors]

ModelPaths == {"pong_model.tflite", "missing.tflite"}

\* the frame_skip arguments tried; __init__ checks none of them
SkipArgs == (0 - MaxNegSkip)..MaxSkip

\* where the tensor plumbing of an inference tick may raise
Faults == {"none", "set_tensor", "invoke", "get_tensor"}

VARIABLES
    status,        \* "unconstructed", "ready" (an agent exists), "load_failed"
    interpreter,   \* self.interpreter, as the map it computes
    frame_skip,    \* self.frame_skip
    frame_count,   \* self.frame_count
    last_action,   \* self.last_action
    ctor_arg,      \* history: the frame_skip argument given to __init__
    calls,         \* history: number of get_action calls made
    infer_calls,   \* history: number of calls that entered the inference block
    call,          \* history: what the latest get_action call did
    output,        \* history: the latest tensor read by get_tensor (<<>>: none)
    infer_action,  \* history: action returned by the latest inference tick
                   \*          that returned one (NoAction: none)
    inferred_log,  \* history: per call, whether it entered the inference block
    infer_outcome, \* history: how the latest inference tick ended ("none":
                   \*          there was none yet)
    twin           \* a second agent with the same frame_skip and interpreter,
                   \* run only by PairSpec: its fields and its latest call

vars == <<status, interpreter, frame_skip, frame_count, last_action,
          ctor_arg, calls, infer_calls, call, output, infer_action,
          inferred_log, infer_outcome, twin>>

NoCall == [tick |-> 0, state |-> <<>>, inferred |-> FALSE,
           outcome |-> "none", action |-> NoAction]

NoTwin == [frame_count |-> None, last_action |-> None,
           state |-> <<>>, action |-> NoAction]

\* ------------------------------------------------------------ pure parts

\* Python's int %: the result takes the sign of the divisor (divisor # 0)
PyMod(a, b) == IF b > 0 THEN a % b ELSE 0 - ((0 - a) % (0 - b))

IsInferenceTickOffByOne(count, skip) == PyMod(count - 1, skip) = 0

IsInferenceTickAfterWarmup(count, skip) ==
    count > skip /\ PyMod(count, skip) = 0

IsInferenceTickInverted(count, skip) == PyMod(count, skip) # 0

\* line 50: self.frame_count % self.frame_skip == 0
IsInferenceTick(count, skip) == PyMod(count, skip) = 0

RECURSIVE ArgmaxScan(_, _, _)
\* np.argmax scans left to right and keeps the first strictly larger entry
ArgmaxScan(v, i, best) ==
    IF i > Len(v) THEN best
    ELSE ArgmaxScan(v, i + 1, IF v[i] > v[best] THEN i ELSE best)

RECURSIVE ArgmaxScanLast(_, _, _)
ArgmaxScanLast(v, i, best) ==
    IF i > Len(v) THEN best
    ELSE ArgmaxScanLast(v, i + 1, IF v[i] >= v[best] THEN i ELSE best)

argmaxLastWins(v) == ArgmaxScanLast(v, 2, 1) - 1

argmaxOneBased(v) == ArgmaxScan(v, 2, 1)

\* line 65: np.argmax(output[0]); numpy indexes from 0, sequences from 1
argmax(v) == ArgmaxScan(v, 2, 1) - 1

\* lines 52-62: the tensor read back after invoke(), shape [1, 3]
infer(state) == << [i \in 1..3 |-> interpreter[state][i]] >>

\* ------------------------------------------------------------------ Init

Init ==
    /\ status = "unconstructed"
    /\ interpreter = NoInterpreter
    /\ frame_skip = None
    /\ frame_count = None
    /\ last_action = None
    /\ ctor_arg = None
    /\ calls = 0
    /\ infer_calls = 0
    /\ call = NoCall
    /\ output = <<>>
    /\ infer_action = NoAction
    /\ inferred_log = <<>>
    /\ infer_outcome = "none"
    /\ twin = NoTwin

\* --------------------------------------------------------------- __init__

ConstructStartsLeft(model_path, skip, backend) ==
    /\ status = "unconstructed"
    /\ ctor_arg' = skip
    /\ IF model_path = "missing.tflite"
       THEN /\ status' = "load_failed"
            /\ UNCHANGED <<interpreter, frame_skip, frame_count, last_action>>
       ELSE /\ status' = "ready"
            /\ interpreter' = backend
            /\ frame_skip' = skip
            /\ frame_count' = 0
            /\ last_action' = LEFT
    /\ UNCHANGED <<calls, infer_calls, call, output, infer_action,
                   inferred_log, infer_outcome>>

ConstructCountsFromOne(model_path, skip, backend) ==
    /\ status = "unconstructed"
    /\ ctor_arg' = skip
    /\ IF model_path = "missing.tflite"
       THEN /\ status' = "load_failed"
            /\ UNCHANGED <<interpreter, frame_skip, frame_count, last_action>>
       ELSE /\ status' = "ready"
            /\ interpreter' = backend
            /\ frame_skip' = skip
            /\ frame_count' = 1
            /\ last_action' = STAY
    /\ UNCHANGED <<calls, infer_calls, call, output, infer_action,
                   inferred_log, infer_outcome>>

\* lines 13-35.  tflite.Interpreter(model_path) raises when the model file
\* cannot be loaded, and then no agent exists.  Otherwise the three fields
\* are assigned; frame_skip is stored as given, whatever its value.
Construct(model_path, skip, backend) ==
    /\ status = "unconstructed"
    /\ ctor_arg' = skip
    /\ IF model_path = "missing.tflite"
       THEN /\ status' = "load_failed"
            /\ UNCHANGED <<interpreter, frame_skip, frame_count, last_action>>
       ELSE /\ status' = "ready"
            /\ interpreter' = backend
            /\ frame_skip' = skip
            /\ frame_count' = 0
            /\ last_action' = STAY
    /\ UNCHANGED <<calls, infer_calls, call, output, infer_action,
                   inferred_log, infer_outcome>>

\* ------------------------------------------------------------- get_action

\* what every path of get_action shares: the guard of the bounded run and
\* line 47, self.frame_count += 1, which runs before anything can raise
Enter ==
    /\ status = "ready"
    /\ frame_count < MaxTicks
    /\ frame_count' = frame_count + 1
    /\ calls' = calls + 1
    /\ UNCHANGED <<status, interpreter, frame_skip, ctor_arg>>

\* lines 47-50 with frame_skip = 0: the modulo raises ZeroDivisionError
ZeroSkipTick(state) ==
    /\ Enter
    /\ frame_skip = 0
    /\ call' = [tick |-> calls', state |-> state, inferred |-> FALSE,
                outcome |-> "ZeroDivisionError", action |-> NoAction]
    /\ inferred_log' = Append(inferred_log, FALSE)
    /\ UNCHANGED <<last_action, infer_calls, output, infer_action, infer_outcome>>

SkipTickReturnsDefault(state) ==
    /\ Enter
    /\ frame_skip # 0
    /\ ~IsInferenceTick(frame_count', frame_skip)
    /\ call' = [tick |-> calls', state |-> state, inferred |-> FALSE,
                outcome |-> "returned", action |-> Some(STAY)]
    /\ inferred_log' = Append(inferred_log, FALSE)
    /\ UNCHANGED <<last_action, infer_calls, output, infer_action, infer_outcome>>

SkipTickForgetsCache(state) ==
    /\ Enter
    /\ frame_skip # 0
    /\ ~IsInferenceTick(frame_count', frame_skip)
    /\ call' = [tick |-> calls', state |-> state, inferred |-> FALSE,
                outcome |-> "returned", action |-> Some(last_action)]
    /\ last_action' = STAY
    /\ inferred_log' = Append(inferred_log, FALSE)
    /\ UNCHANGED <<infer_calls, output, infer_action, infer_outcome>>

\* lines 47-50, 68: not an inference tick, the cached action is returned
SkipTick(state) ==
    /\ Enter
    /\ frame_skip # 0
    /\ ~IsInferenceTick(frame_count', frame_skip)
    /\ call' = [tick |-> calls', state |-> state, inferred |-> FALSE,
                outcome |-> "returned", action |-> Some(last_action)]
    /\ inferred_log' = Append(inferred_log, FALSE)
    /\ UNCHANGED <<last_action, infer_calls, output, infer_action, infer_outcome>>

InferTickResetsCount(state) ==
    /\ status = "ready"
    /\ calls < MaxTicks
    /\ frame_skip # 0
    /\ IsInferenceTick(frame_count + 1, frame_skip)
    /\ calls' = calls + 1
    /\ frame_count' = 0
    /\ infer_calls' = infer_calls + 1
    /\ output' = infer(state)
    /\ last_action' = argmax(output'[1])
    /\ call' = [tick |-> calls', state |-> state, inferred |-> TRUE,
                outcome |-> "returned", action |-> Some(last_action')]
    /\ infer_action' = Some(last_action')
    /\ inferred_log' = Append(inferred_log, TRUE)
    /\ infer_outcome' = "returned"
    /\ UNCHANGED <<status, interpreter, frame_skip, ctor_arg>>

\* lines 47-68: an inference tick whose backend calls all succeed
InferTick(state) ==
    /\ Enter
    /\ frame_skip # 0
    /\ IsInferenceTick(frame_count', frame_skip)
    /\ infer_calls' = infer_calls + 1
    /\ output' = infer(state)
    /\ last_action' = argmax(output'[1])
    /\ call' = [tick |-> calls', state |-> state, inferred |-> TRUE,
                outcome |-> "returned", action |-> Some(last_action')]
    /\ infer_action' = Some(last_action')
    /\ inferred_log' = Append(inferred_log, TRUE)
    /\ infer_outcome' = "returned"

FailedTickResetsAction(state, fault) ==
    /\ Enter
    /\ frame_skip # 0
    /\ IsInferenceTick(frame_count', frame_skip)
    /\ fault # "none"
    /\ infer_calls' = infer_calls + 1
    /\ last_action' = STAY
    /\ call' = [tick |-> calls', state |-> state, inferred |-> TRUE,
                outcome |-> "InferenceFailed", action |-> NoAction]
    /\ inferred_log' = Append(inferred_log, TRUE)
    /\ infer_outcome' = "InferenceFailed"
    /\ UNCHANGED <<output, infer_action>>

FailedTickTakesGarbage(state, fault) ==
    /\ Enter
    /\ frame_skip # 0
    /\ IsInferenceTick(frame_count', frame_skip)
    /\ fault # "none"
    /\ infer_calls' = infer_calls + 1
    /\ last_action' = argmax(<<0, 0, 0>>)
    /\ call' = [tick |-> calls', state |-> state, inferred |-> TRUE,
                outcome |-> "InferenceFailed", action |-> NoAction]
    /\ inferred_log' = Append(inferred_log, TRUE)
    /\ infer_outcome' = "InferenceFailed"
    /\ UNCHANGED <<output, infer_action>>

FailedTickKeepsCount(state, fault) ==
    /\ status = "ready"
    /\ calls < MaxTicks
    /\ frame_skip # 0
    /\ IsInferenceTick(frame_count + 1, frame_skip)
    /\ fault # "none"
    /\ calls' = calls + 1
    /\ infer_calls' = infer_calls + 1
    /\ call' = [tick |-> calls', state |-> state, inferred |-> TRUE,
                outcome |-> "InferenceFailed", action |-> NoAction]
    /\ inferred_log' = Append(inferred_log, TRUE)
    /\ infer_outcome' = "InferenceFailed"
    /\ UNCHANGED <<status, interpreter, frame_skip, ctor_arg, frame_count,
                   last_action, output, infer_action>>

\* lines 47-62: an inference tick on which set_tensor, invoke or get_tensor
\* raises; the exception leaves get_action before line 65 assigns anything
FailedTick(state, fault) ==
    /\ Enter
    /\ frame_skip # 0
    /\ IsInferenceTick(frame_count', frame_skip)
    /\ fault # "none"
    /\ infer_calls' = infer_calls + 1
    /\ call' = [tick |-> calls', state |-> state, inferred |-> TRUE,
                outcome |-> "InferenceFailed", action |-> NoAction]
    /\ inferred_log' = Append(inferred_log, TRUE)
    /\ infer_outcome' = "InferenceFailed"
    /\ UNCHANGED <<last_action, output, infer_action>>

\* lines 37-68
get_action(state, fault) ==
    \/ ZeroSkipTick(state)
    \/ SkipTick(state)
    \/ (fault = "none" /\ InferTick(state))
    \/ FailedTick(state, fault)

\* lines 77-97: one agent is constructed and then asked once per frame
Next ==
    \/ /\ status = "unconstructed"
       /\ \E p \in ModelPaths, k \in SkipArgs, b \in Backends :
             Construct(p, k, b) /\ UNCHANGED twin
    \/ \E s \in StateVectors, f \in Faults :
          get_action(s, f) /\ UNCHANGED twin

Spec == Init /\ [][Next]_vars

\* lines 85-97: the game loop calls get_action once per frame
Tick == \E s \in StateVectors, f \in Faults : get_action(s, f) /\ UNCHANGED twin

\* the loop keeps ticking: a frame that can be played is played
FairSpec == Spec /\ WF_calls(Tick)

\* ------------------------------------------------------------ two agents

\* lines 29-32 for the second agent, built from the same arguments
twin_construct(model_path) ==
    twin' = IF model_path = "missing.tflite" THEN twin
            ELSE [frame_count |-> 0, last_action |-> STAY,
                  state |-> <<>>, action |-> NoAction]

\* lines 37-68 for the second agent, as a function of its own fields
twin_get_action(state, fault) ==
    LET count == twin.frame_count + 1
        seen == [twin EXCEPT !.frame_count = count, !.state = state]
    IN twin' =
         IF frame_skip = 0
         THEN [seen EXCEPT !.action = NoAction]
         ELSE IF IsInferenceTick(count, frame_skip)
         THEN IF fault # "none"
              THEN [seen EXCEPT !.action = NoAction]
              ELSE [seen EXCEPT !.last_action = argmax(infer(state)[1]),
                                !.action = Some(argmax(infer(state)[1]))]
         ELSE [seen EXCEPT !.action = Some(twin.last_action)]

\* n is a multiple of k
IsMultiple(n, k) == \E m \in (0 - n)..n : n = m * k

\* the two state sequences agree on every tick whose number is a multiple
\* of frame_skip and are free on the others
AgreeOnInferenceTicks(s1, s2) ==
    IsMultiple(calls + 1, frame_skip) => s1 = s2

\* both agents are built alike and fed in lockstep; the backend is
\* deterministic, so on equal input it fails for both or for neither
PairNext ==
    \/ /\ status = "unconstructed"
       /\ \E p \in ModelPaths, k \in SkipArgs, b \in Backends :
             Construct(p, k, b) /\ twin_construct(p)
    \/ \E s1 \in StateVectors, s2 \in StateVectors, f \in Faults :
          /\ AgreeOnInferenceTicks(s1, s2)
          /\ get_action(s1, f)
          /\ twin_get_action(s2, f)

PairSpec == Init /\ [][PairNext]_vars

\* ================================================================ claims

Ready == status = "ready"

IsMaxAt(v, a) == \A j \in 1..Len(v) : v[j] <= v[a + 1]

\* the lowest action index whose score equals the maximum of v
LowestMax(v) ==
    CHOOSE a \in Actions :
        IsMaxAt(v, a) /\ \A b \in Actions : IsMaxAt(v, b) => a <= b

\* C1 (skip cadence): with frame_skip = k >= 1, after N calls on a fresh
\* agent the backend has been invoked floor(N / k) times, and a call invokes
\* it exactly when its 1-indexed number is a multiple of k.
C1_SkipCadence ==
    (Ready /\ frame_skip >= 1) =>
        /\ infer_calls = calls \div frame_skip
        /\ call.tick > 0 => (call.inferred <=> call.tick % frame_skip = 0)

C1_Witness ==
    Ready /\ frame_skip = 3 /\ calls = 7 /\ infer_calls = 2 /\ ~call.inferred

\* C2 (cache reuse): a call that is not an inference tick returns the action
\* returned on the most recent prior inference tick that returned one, or
\* STAY if there is none; with frame_skip = 4 the call after ticks 5, 6, 7
\* (tick 8) is an inference tick again.
C2_CacheReuse ==
    Ready =>
        /\ (call.outcome = "returned" /\ ~call.inferred) =>
               call.action = (IF infer_action = NoAction THEN Some(STAY)
                              ELSE infer_action)
        /\ (frame_skip = 4 /\ call.tick \in {4, 8}) => call.inferred
        /\ (frame_skip = 4 /\ call.tick \in {5, 6, 7}) => ~call.inferred

C2_Witness ==
    /\ Ready /\ frame_skip = 4 /\ call.tick = 7 /\ ~call.inferred
    /\ infer_action = Some(RIGHT) /\ call.action = Some(RIGHT)

\* C3 (failure preserves cache): a call whose backend call fails returns no
\* action, leaves last_action as it was and has raised frame_count by one.
C3_FailurePreservesCache ==
    [][(calls' = calls + 1 /\ call'.outcome = "InferenceFailed") =>
          /\ call'.action = NoAction
          /\ last_action' = last_action
          /\ frame_count' = frame_count + 1]_vars

C3_Witness ==
    /\ Ready /\ frame_skip = 2 /\ call.tick = 4
    /\ call.outcome = "InferenceFailed"
    /\ last_action = RIGHT /\ frame_count = 4

\* C4 (invalid configuration): construction with frame_skip < 1 creates no
\* agent, so no get_action call is ever made with frame_skip < 1.
C4_InvalidConfiguration ==
    (status # "unconstructed" /\ ctor_arg < 1) => (~Ready /\ calls = 0)

\* C5 (cold start): with frame_skip = k > 1 the first k - 1 calls return
\* STAY without invoking the backend, whatever the state, and call k invokes
\* it and returns the argmax of the scores of the state supplied at call k.
C5_ColdStart ==
    (Ready /\ frame_skip > 1) =>
        /\ call.tick \in 1..(frame_skip - 1) =>
              /\ call.outcome = "returned"
              /\ call.action = Some(STAY)
              /\ ~call.inferred
              /\ infer_calls = 0
        /\ call.tick = frame_skip =>
              /\ call.inferred
              /\ call.outcome = "returned" =>
                    call.action = Some(LowestMax(interpreter[call.state]))

C5_Witness ==
    /\ Ready /\ frame_skip = 4 /\ call.tick = 4
    /\ call.outcome = "returned" /\ call.action = Some(LEFT)

\* C6 (no skip): with frame_skip = 1 every call invokes the backend exactly
\* once and a returning call returns the argmax of the scores of its own
\* state.
C6_NoSkip ==
    (Ready /\ frame_skip = 1) =>
        /\ infer_calls = calls
        /\ call.tick > 0 =>
              /\ call.inferred
              /\ call.outcome = "returned" =>
                    call.action = Some(LowestMax(interpreter[call.state]))

C6_Witness ==
    /\ Ready /\ frame_skip = 1 /\ calls = 3 /\ infer_calls = 3
    /\ call.inferred /\ call.action = Some(RIGHT)

\* C7 (argmax tie-break): after a successful inference tick last_action is
\* the lowest index whose score equals the maximum of the score vector read.
C7_ArgmaxTieBreak ==
    (Ready /\ call.inferred /\ call.outcome = "returned") =>
        /\ output = <<interpreter[call.state]>>
        /\ last_action = LowestMax(output[1])

C7_Witness ==
    /\ Ready /\ call.inferred /\ call.outcome = "returned"
    /\ output = << <<1, 1, 0>> >>
    /\ last_action = LEFT

\* C8 (result range): last_action is always one of LEFT, STAY, RIGHT, and
\* so is the value of every call that returns.
C8_ResultRange ==
    Ready =>
        /\ last_action \in Actions
        /\ call.outcome = "returned" => call.action \in {Some(a) : a \in Actions}

C8_Witness ==
    /\ Ready /\ frame_skip = 2 /\ call.tick = 3
    /\ call.outcome = "returned" /\ call.action = Some(RIGHT)
    /\ last_action = RIGHT

\* C9 (initial state): right after a successful construction frame_count is
\* 0, last_action is STAY, frame_skip is the constructor's argument and no
\* inference has been performed.
C9_InitialState ==
    (Ready /\ calls = 0) =>
        /\ frame_count = 0
        /\ last_action = STAY
        /\ frame_skip = ctor_arg
        /\ infer_calls = 0
        /\ output = <<>>

C9_Witness == Ready /\ calls = 0 /\ frame_skip = 4 /\ ctor_arg = 4

\* C10 (cached-action invariant): last_action is the argmax of the score
\* vector computed at the most recent inference, or STAY if none was computed.
C10_CachedAction ==
    Ready =>
        last_action = (IF output = <<>> THEN STAY ELSE LowestMax(output[1]))

C10_Witness ==
    /\ Ready /\ calls = 5 /\ frame_skip = 2
    /\ call.outcome = "returned" /\ ~call.inferred
    /\ output = << <<0, 0, 1>> >> /\ last_action = RIGHT

\* C11 (counter monotonicity): every get_action call, whatever its path,
\* raises frame_count by exactly one, nothing else changes it, and after n
\* calls on a fresh agent frame_count = n.
C11_CounterMonotonic ==
    [][Ready =>
          /\ calls' = calls + 1 => frame_count' = frame_count + 1
          /\ calls' = calls => frame_count' = frame_count
          /\ frame_count' = calls']_vars

C11_Witness ==
    /\ Ready /\ frame_skip = 3 /\ calls = 6 /\ frame_count = 6
    /\ call.outcome = "InferenceFailed"

\* C12 (frame condition): a get_action call never changes frame_skip; unless
\* it is an inference tick whose backend call succeeds it leaves last_action
\* (and the interpreter) as they were, frame_count being the only field of
\* the agent that changes.
C12_FrameCondition ==
    [][(Ready /\ calls' = calls + 1) =>
          /\ frame_skip' = frame_skip
          /\ last_action' # last_action =>
                (call'.inferred /\ call'.outcome = "returned")
          /\ ~(call'.inferred /\ call'.outcome = "returned") =>
                /\ last_action' = last_action
                /\ interpreter' = interpreter
                /\ frame_count' # frame_count]_vars

C12_Witness ==
    /\ Ready /\ frame_skip = 3 /\ calls = 4 /\ ~call.inferred
    /\ call.outcome = "returned" /\ last_action = LEFT

\* the number of the latest call that entered the inference block (0: none)
LastInferTick(log) ==
    LET hits == {i \in 1..Len(log) : log[i]}
    IN IF hits = {} THEN 0 ELSE CHOOSE i \in hits : \A j \in hits : j <= i

C13_Window ==
    (Ready /\ frame_skip >= 1) =>
        /\ Len(inferred_log) = calls
        /\ \A i \in 1..(calls - frame_skip + 1) :
              Cardinality({j \in i..(i + frame_skip - 1) : inferred_log[j]}) = 1
        /\ \A i, j \in 1..calls :
              ( /\ i < j /\ inferred_log[i] /\ inferred_log[j]
                /\ \A m \in (i + 1)..(j - 1) : ~inferred_log[m] )
              => j - i - 1 = frame_skip - 1

\* one more call enters the inference block exactly when the parity of
\* infer_calls flips
C13_KeepsRolling ==
    \A b \in {0, 1} :
        ( /\ Ready /\ frame_skip >= 1 /\ calls + frame_skip <= MaxTicks
          /\ infer_calls % 2 = b )
            ~> (infer_calls % 2 = 1 - b)

\* C13 (rolling window): with frame_skip = k >= 1 any k consecutive calls
\* hold exactly one inference tick, two consecutive inference ticks have
\* exactly k - 1 replayed ticks between them, and while the loop keeps
\* ticking (and k more calls fit the run) an inference tick occurs again;
\* get_action is the only operation on the agent, there is no reset.
C13_RollingWindow == []C13_Window /\ C13_KeepsRolling

C13_Witness ==
    /\ Ready /\ frame_skip = 3 /\ calls = 8
    /\ inferred_log = <<FALSE, FALSE, TRUE, FALSE, FALSE, TRUE, FALSE, FALSE>>

\* the cached action before a failed call: what the latest inference tick
\* that returned an action returned, or the initial STAY
OldCached == IF infer_action = NoAction THEN Some(STAY) ELSE infer_action

\* C14 (no retry after failure): with frame_skip = k > 1, the call right
\* after an inference tick whose backend call failed does not invoke the
\* backend and returns the old cached action, and the next inference tick
\* after a failed one is exactly k calls after it.
C14_NoRetryAfterFailure ==
    [][(Ready /\ frame_skip > 1 /\ calls' = calls + 1) =>
          /\ call.outcome = "InferenceFailed" =>
                /\ ~call'.inferred
                /\ infer_calls' = infer_calls
                /\ call'.outcome = "returned"
                /\ call'.action = OldCached
          /\ (infer_outcome = "InferenceFailed" /\ call'.inferred) =>
                calls' = LastInferTick(inferred_log) + frame_skip
          /\ (infer_outcome = "InferenceFailed" /\ ~call'.inferred) =>
                calls' < LastInferTick(inferred_log) + frame_skip]_vars

C14_Witness ==
    /\ Ready /\ frame_skip = 2 /\ calls = 6
    /\ inferred_log = <<FALSE, TRUE, FALSE, TRUE, FALSE, TRUE>>
    /\ infer_calls = 3 /\ infer_action = Some(RIGHT)
    /\ call.outcome = "InferenceFailed" /\ last_action = RIGHT

\* C15 (non-inference states are ignored): two agents with the same
\* frame_skip and the same deterministic backend, fed state sequences that
\* agree on every tick whose number is a multiple of frame_skip, return the
\* same thing on every tick and have the same frame_count and last_action
\* after it.
C15_SkippedStatesIgnored ==
    Ready =>
        /\ twin.frame_count = frame_count
        /\ twin.last_action = last_action
        /\ twin.action = call.action

C15_Witness ==
    /\ Ready /\ frame_skip = 4 /\ calls = 6
    /\ twin.state # call.state
    /\ call.action = Some(RIGHT) /\ twin.action = Some(RIGHT)
    /\ last_action = RIGHT /\ twin.last_action = RIGHT

====
